---- MODULE Spec2Model ----
(***************************************************************************)
(* The first-fit heap allocator of CSC453 asgn01 (malloc, free, calloc,    *)
(* realloc over sbrk), modelled at the level of the 8-byte words the code  *)
(* loads and stores.  The block directory is not a separate structure: it  *)
(* is whatever the words of the arena say it is, so splits, merges, stale  *)
(* headers and overlapping regions behave as they do in memory.            *)
(***************************************************************************)
EXTENDS Integers, Sequences, FiniteSets

(* ------------------------------------------------------------------ *)
(* Bounds of the model                                                  *)
(* ------------------------------------------------------------------ *)

\* Width of size_t and of a pointer, in bits (64 in the build; the
\* arithmetic is the same modulo 2^SizeBits).
SizeBits == 24

\* The number of calls the client makes in one run.
MaxOps == 5

\* How many bytes beyond the bootstrap chunk the operating system is
\* willing to grant before it refuses sbrk.
ArenaSlack == 131200

(* ------------------------------------------------------------------ *)
(* Machine arithmetic                                                   *)
(* ------------------------------------------------------------------ *)

SIZE_MOD == 2 ^ SizeBits
SIZE_MAX == SIZE_MOD - 1

\* size_t / pointer arithmetic wraps
Wrap(x) == x % SIZE_MOD

\* the value of a size_t converted to intptr_t (the parameter of sbrk)
Signed(x) == IF x >= SIZE_MOD \div 2 THEN x - SIZE_MOD ELSE x

NULL == 0
ENOMEM == 12
\* (void *) -1
SBRK_FAILED == SIZE_MAX

ALGN == 16
\* sizeof(Header): size_t size; int is_free (+ padding); two pointers
HEADER_SIZE == 32
PADDED_HEADER_SIZE == (HEADER_SIZE + (ALGN - 1)) - ((HEADER_SIZE + (ALGN - 1)) % ALGN)

\* byte offsets of the fields of struct header
OFF_SIZE == 0
OFF_FREE == 8
OFF_NEXT == 16
OFF_PREV == 24
WORD == 8

\* a faulty rounding: to the word size instead of the alignment unit
AlignUpToWord(size) == Wrap(size + (WORD - 1)) - (Wrap(size + (WORD - 1)) % WORD)

\* (size + (ALGN - 1)) & ~(ALGN - 1), in size_t arithmetic
AlignUp(size) == Wrap(size + (ALGN - 1)) - (Wrap(size + (ALGN - 1)) % ALGN)

initial_chunk_size == 64 * 1024

\* The program break when the process starts (page aligned), and the
\* highest break the operating system grants.
HeapBase == 4096
BrkLimit == HeapBase + initial_chunk_size + ArenaSlack

(* ------------------------------------------------------------------ *)
(* Memory: a machine state is a record                                  *)
(*   mem       word address -> nonzero word (absent = 0)                *)
(*   heap_head the static Header *heap_head                             *)
(*   brk       the program break                                        *)
(*   errno     the error signal                                         *)
(*   status    "run", or "fault" (a load or store outside the arena),   *)
(*             or "hang" (a list walk that never ends)                  *)
(* ------------------------------------------------------------------ *)

Rd(s, a) == IF a \in DOMAIN s.mem THEN s.mem[a] ELSE 0

Put(m, a, v) ==
    IF v = 0 THEN [x \in DOMAIN m \ {a} |-> m[x]]
    ELSE [x \in DOMAIN m \cup {a} |-> IF x = a THEN v ELSE m[x]]

\* a word the process may load or store: inside [HeapBase, brk)
Ok(s, a) == a % WORD = 0 /\ HeapBase <= a /\ a + WORD <= s.brk

Fault(s) == [s EXCEPT !.status = "fault"]
Hang(s) == [s EXCEPT !.status = "hang"]

\* the loads of a statement: the first access outside the arena faults
Need(s, as) ==
    IF s.status = "run" /\ \E a \in as : ~Ok(s, a) THEN Fault(s) ELSE s

\* a store of one word
St(s, a, v) ==
    LET t == Need(s, {a})
    IN  IF t.status = "run" THEN [t EXCEPT !.mem = Put(@, a, v)] ELSE t

\* a store whose address or value is computed from the loads rd
StR(s, rd, a, v) == St(Need(s, rd), a, v)

\* header field accessors
size_of(s, h) == Rd(s, Wrap(h + OFF_SIZE))
is_free(s, h) == Rd(s, Wrap(h + OFF_FREE))
next_of(s, h) == Rd(s, Wrap(h + OFF_NEXT))
prev_of(s, h) == Rd(s, Wrap(h + OFF_PREV))

\* sbrk(incr): the operating system moves the break by the signed
\* increment and returns the old break, or refuses and sets errno.
\* grant is the operating system's answer to this request; it also
\* refuses a break outside [HeapBase, BrkLimit].
sbrk(s, incr, grant) ==
    LET nb == s.brk + Signed(incr)
    IN  IF (grant \/ Signed(incr) = 0) /\ nb >= HeapBase /\ nb <= BrkLimit
        THEN [st |-> [s EXCEPT !.brk = nb], ret |-> s.brk]
        ELSE [st |-> [s EXCEPT !.errno = ENOMEM], ret |-> SBRK_FAILED]

(* ------------------------------------------------------------------ *)
(* malloc                                                               *)
(* ------------------------------------------------------------------ *)

\* the bootstrap of the first call: one free block spanning the grant
Bootstrap(s, size, grant) ==
    LET request_size ==
            IF Wrap(PADDED_HEADER_SIZE + size) > initial_chunk_size
            THEN Wrap(PADDED_HEADER_SIZE + size + ALGN)
            ELSE initial_chunk_size
        r == sbrk(s, request_size, grant)
        block == r.ret
        s1 == St(r.st, Wrap(block + OFF_SIZE), Wrap(request_size - PADDED_HEADER_SIZE))
        s2 == St(s1, Wrap(block + OFF_FREE), 1)
        s3 == St(s2, Wrap(block + OFF_NEXT), NULL)
        s4 == St(s3, Wrap(block + OFF_PREV), NULL)
    IN  IF r.ret = SBRK_FAILED
        THEN [st |-> [r.st EXCEPT !.errno = ENOMEM], ok |-> FALSE]
        ELSE [st |-> IF s4.status = "run" THEN [s4 EXCEPT !.heap_head = block] ELSE s4,
              ok |-> TRUE]

\* the first-fit scan: the first block, in list order, that is free and
\* large enough
RECURSIVE Scan(_, _, _, _)
Scan(s, current, size, seen) ==
    IF current = NULL THEN [res |-> "none", blk |-> NULL]
    ELSE IF current \in seen THEN [res |-> "hang", blk |-> NULL]
    ELSE IF ~Ok(s, Wrap(current + OFF_FREE)) THEN [res |-> "fault", blk |-> NULL]
    ELSE IF is_free(s, current) # 0 /\ ~Ok(s, Wrap(current + OFF_SIZE))
         THEN [res |-> "fault", blk |-> NULL]
    ELSE IF is_free(s, current) # 0 /\ size_of(s, current) >= size
         THEN [res |-> "found", blk |-> current]
    ELSE IF ~Ok(s, Wrap(current + OFF_NEXT)) THEN [res |-> "fault", blk |-> NULL]
    ELSE Scan(s, next_of(s, current), size, seen \cup {current})

\* if (x->next != NULL) x->next->prev = y;
SetNextPrev(s, x, y) ==
    LET t == Need(s, {Wrap(x + OFF_NEXT)})
    IN  IF t.status # "run" \/ next_of(t, x) = NULL THEN t
        ELSE St(t, Wrap(next_of(t, x) + OFF_PREV), y)

\* carve a free block out of the tail of current, leaving it size bytes
SplitBlock(s, current, size) ==
    LET new_block == Wrap(current + PADDED_HEADER_SIZE + size)
        s1 == StR(s, {Wrap(current + OFF_SIZE)}, Wrap(new_block + OFF_SIZE),
                  Wrap(size_of(s, current) - size - PADDED_HEADER_SIZE))
        s2 == St(s1, Wrap(new_block + OFF_FREE), 1)
        s3 == StR(s2, {Wrap(current + OFF_NEXT)}, Wrap(new_block + OFF_NEXT),
                  next_of(s2, current))
        s4 == St(s3, Wrap(new_block + OFF_PREV), current)
        s5 == SetNextPrev(s4, current, new_block)
        s6 == St(s5, Wrap(current + OFF_SIZE), size)
    IN  St(s6, Wrap(current + OFF_NEXT), new_block)

\* a fitting block was found: split it when the surplus can host a
\* header and one alignment unit, and hand it out
TakeBlock(s, current, size) ==
    LET s1 == IF size_of(s, current) >= Wrap(size + PADDED_HEADER_SIZE + ALGN)
              THEN SplitBlock(s, current, size)
              ELSE s
        s2 == St(s1, Wrap(current + OFF_FREE), 0)
    IN  [st |-> s2, ret |-> Wrap(current + PADDED_HEADER_SIZE)]

\* walk to the last block of the list
RECURSIVE LastBlock(_, _, _)
LastBlock(s, last_block, seen) ==
    IF last_block \in seen THEN [res |-> "hang", blk |-> NULL]
    ELSE IF ~Ok(s, Wrap(last_block + OFF_NEXT)) THEN [res |-> "fault", blk |-> NULL]
    ELSE IF next_of(s, last_block) = NULL THEN [res |-> "found", blk |-> last_block]
    ELSE LastBlock(s, next_of(s, last_block), seen \cup {last_block})

\* no block fits: append a new in-use block obtained from sbrk
GrowArena(s, size, grant) ==
    LET l == LastBlock(s, s.heap_head, {})
        r == sbrk(s, Wrap(PADDED_HEADER_SIZE + size + ALGN), grant)
        new_block == r.ret
        s1 == St(r.st, Wrap(new_block + OFF_SIZE), size)
        s2 == St(s1, Wrap(new_block + OFF_FREE), 0)
        s3 == St(s2, Wrap(new_block + OFF_NEXT), NULL)
        s4 == St(s3, Wrap(new_block + OFF_PREV), l.blk)
        s5 == St(s4, Wrap(l.blk + OFF_NEXT), new_block)
    IN  IF l.res = "hang" THEN [st |-> Hang(s), ret |-> NULL]
        ELSE IF l.res = "fault" THEN [st |-> Fault(s), ret |-> NULL]
        ELSE IF r.ret = SBRK_FAILED
             THEN [st |-> [r.st EXCEPT !.errno = ENOMEM], ret |-> NULL]
        ELSE [st |-> s5, ret |-> Wrap(new_block + PADDED_HEADER_SIZE)]

\* the scan has ended: hand out the block found, or grow the arena
Serve(s, f, size, grant) ==
    IF f.res = "hang" THEN [st |-> Hang(s), ret |-> NULL]
    ELSE IF f.res = "fault" THEN [st |-> Fault(s), ret |-> NULL]
    ELSE IF f.res = "found" THEN TakeBlock(s, f.blk, size)
    ELSE GrowArena(s, size, grant)

\* the body of malloc once the heap exists
Allocate(s, size, grant) == Serve(s, Scan(s, s.heap_head, size, {}), size, grant)

\* malloc after its bootstrap b: give up if sbrk refused it
AfterBootstrap(b, size, grant) ==
    IF ~b.ok \/ b.st.status # "run" THEN [st |-> b.st, ret |-> NULL]
    ELSE Allocate(b.st, size, grant)

\* a faulty malloc without the zero-size check of lines 57-60: a request
\* of 0 bytes is rounded and served like any other
mallocServingZero(s, n, grant) ==
    IF s.heap_head = NULL
    THEN AfterBootstrap(Bootstrap(s, AlignUp(n), grant >= 1), AlignUp(n), grant >= 2)
    ELSE Allocate(s, AlignUp(n), grant >= 1)

\* grant: how many of the call's sbrk requests the operating system
\* grants, in order (a call makes at most two: the growth request is
\* the second sbrk of a call that bootstrapped)
malloc(s, n, grant) ==
    IF n = 0 THEN [st |-> s, ret |-> NULL]
    ELSE IF s.heap_head = NULL
         THEN AfterBootstrap(Bootstrap(s, AlignUp(n), grant >= 1), AlignUp(n), grant >= 2)
    ELSE Allocate(s, AlignUp(n), grant >= 1)

(* ------------------------------------------------------------------ *)
(* free                                                                 *)
(* ------------------------------------------------------------------ *)

\* the forward merge loop: absorb every free successor of current
RECURSIVE MergeNext(_, _, _)
MergeNext(s, current, fuel) ==
    LET s0 == Need(s, {Wrap(current + OFF_NEXT)})
        next_block == next_of(s, current)
        s1 == Need(s0, {Wrap(next_block + OFF_FREE)})
        s2 == StR(s1, {Wrap(current + OFF_SIZE), Wrap(next_block + OFF_SIZE)},
                  Wrap(current + OFF_SIZE),
                  Wrap(size_of(s1, current) + PADDED_HEADER_SIZE + size_of(s1, next_block)))
        s3 == StR(s2, {Wrap(next_block + OFF_NEXT)}, Wrap(current + OFF_NEXT),
                  next_of(s2, next_block))
        s4 == SetNextPrev(s3, next_block, current)
    IN  IF s0.status # "run" THEN s0
        ELSE IF next_block = NULL THEN s0
        ELSE IF s1.status # "run" THEN s1
        ELSE IF is_free(s1, next_block) = 0 THEN s1
        ELSE IF fuel = 0 THEN Hang(s1)
        ELSE IF s4.status # "run" THEN s4
        ELSE MergeNext(s4, current, fuel - 1)

\* the single backward merge step: the predecessor absorbs current
MergePrev(s, current) ==
    LET s0 == Need(s, {Wrap(current + OFF_PREV)})
        prev_block == prev_of(s, current)
        s1 == Need(s0, {Wrap(prev_block + OFF_FREE)})
        s2 == StR(s1, {Wrap(prev_block + OFF_SIZE), Wrap(current + OFF_SIZE)},
                  Wrap(prev_block + OFF_SIZE),
                  Wrap(size_of(s1, prev_block) + PADDED_HEADER_SIZE + size_of(s1, current)))
        s3 == StR(s2, {Wrap(current + OFF_NEXT)}, Wrap(prev_block + OFF_NEXT),
                  next_of(s2, current))
        s4 == SetNextPrev(s3, current, prev_block)
    IN  IF s0.status # "run" THEN s0
        ELSE IF prev_block = NULL THEN s0
        ELSE IF s1.status # "run" THEN s1
        ELSE IF is_free(s1, prev_block) = 0 THEN s1
        ELSE s4

\* the longest forward merge run the loop is followed for
MergeFuel == 2 * MaxOps + 4

\* a faulty free without the double-free check of lines 193-195
freeUnchecked(s, ptr) ==
    IF ptr = NULL THEN s
    ELSE
    LET current == Wrap(ptr - PADDED_HEADER_SIZE)
        s0 == Need(s, {Wrap(current + OFF_FREE)})
        s1 == St(s0, Wrap(current + OFF_FREE), 1)
        s2 == MergeNext(s1, current, MergeFuel)
    IN  IF s0.status # "run" THEN s0
        ELSE IF s2.status # "run" THEN s2
        ELSE MergePrev(s2, current)

free(s, ptr) ==
    IF ptr = NULL THEN s
    ELSE
    LET current == Wrap(ptr - PADDED_HEADER_SIZE)
        s0 == Need(s, {Wrap(current + OFF_FREE)})
        s1 == St(s0, Wrap(current + OFF_FREE), 1)
        s2 == MergeNext(s1, current, MergeFuel)
    IN  IF s0.status # "run" THEN s0
        ELSE IF is_free(s0, current) # 0 THEN s0
        ELSE IF s2.status # "run" THEN s2
        ELSE MergePrev(s2, current)

(* ------------------------------------------------------------------ *)
(* memset, memcpy                                                       *)
(* ------------------------------------------------------------------ *)

\* the n bytes at p lie inside the arena
RangeOk(s, p, n) == p % WORD = 0 /\ HeapBase <= p /\ p + n <= s.brk

InRange(a, p, n) == p <= a /\ a < p + n

\* memset(ptr, 0, n)
MemZero(s, ptr, n) ==
    IF n = 0 \/ s.status # "run" THEN s
    ELSE IF ~RangeOk(s, ptr, n) THEN Fault(s)
    ELSE [s EXCEPT !.mem = [a \in {x \in DOMAIN @ : ~InRange(x, ptr, n)} |-> @[a]]]

\* memcpy(dst, src, n)
MemCopy(s, dst, src, n) ==
    IF n = 0 \/ s.status # "run" THEN s
    ELSE IF ~RangeOk(s, src, n) \/ ~RangeOk(s, dst, n) THEN Fault(s)
    ELSE [s EXCEPT !.mem =
            [a \in {x \in DOMAIN @ : ~InRange(x, dst, n)}
                   \cup {dst + (x - src) : x \in {y \in DOMAIN @ : InRange(y, src, n)}}
               |-> IF InRange(a, dst, n) THEN @[src + (a - dst)] ELSE @[a]]]

(* ------------------------------------------------------------------ *)
(* calloc                                                               *)
(* ------------------------------------------------------------------ *)

\* memset(ptr, 0, total_size) when malloc returned a block
ZeroFill(r, total_size) ==
    IF r.ret # NULL /\ r.st.status = "run"
    THEN [st |-> MemZero(r.st, r.ret, total_size), ret |-> r.ret]
    ELSE r

\* a faulty calloc without the overflow check: the product is taken in
\* size_t as it comes
callocUnguarded(s, nmemb, size, grant) ==
    ZeroFill(malloc(s, Wrap(nmemb * size), grant), Wrap(nmemb * size))

calloc(s, nmemb, size, grant) ==
    IF nmemb > 0 /\ size > 0 /\ nmemb > SIZE_MAX \div size
    THEN [st |-> [s EXCEPT !.errno = ENOMEM], ret |-> NULL]
    ELSE ZeroFill(malloc(s, nmemb * size, grant), nmemb * size)

(* ------------------------------------------------------------------ *)
(* realloc                                                              *)
(* ------------------------------------------------------------------ *)

\* Case 1: the block is large enough; split off a useful surplus
ShrinkInPlace(s, ptr, current, aSize) ==
    LET s1 == IF size_of(s, current) >= Wrap(aSize + PADDED_HEADER_SIZE + ALGN)
              THEN SplitBlock(s, current, aSize)
              ELSE s
    IN  [st |-> s1, ret |-> ptr]

\* the split of Case 2: the surplus of the merged block becomes a free
\* block; current's size is set by the caller
GrowSplit(s, current, aSize) ==
    LET new_block == Wrap(current + PADDED_HEADER_SIZE + aSize)
        s1 == StR(s, {Wrap(current + OFF_SIZE)}, Wrap(new_block + OFF_SIZE),
                  Wrap(size_of(s, current) - aSize - PADDED_HEADER_SIZE))
        s2 == St(s1, Wrap(new_block + OFF_FREE), 1)
        s3 == StR(s2, {Wrap(current + OFF_NEXT)}, Wrap(new_block + OFF_NEXT),
                  next_of(s2, current))
        s4 == St(s3, Wrap(new_block + OFF_PREV), current)
        s5 == SetNextPrev(s4, current, new_block)
    IN  St(s5, Wrap(current + OFF_NEXT), new_block)

\* Case 2: absorb the free successor, split the excess, set the size
GrowInPlace(s, ptr, current, aSize) ==
    LET next_block == next_of(s, current)
        msize == Wrap(size_of(s, current) + PADDED_HEADER_SIZE + size_of(s, next_block))
        s1 == St(s, Wrap(current + OFF_SIZE), msize)
        s2 == StR(s1, {Wrap(next_block + OFF_NEXT)}, Wrap(current + OFF_NEXT),
                  next_of(s1, next_block))
        s3 == SetNextPrev(s2, next_block, current)
        s4 == IF size_of(Need(s3, {Wrap(current + OFF_SIZE)}), current)
                    >= Wrap(aSize + PADDED_HEADER_SIZE + ALGN)
              THEN GrowSplit(s3, current, aSize)
              ELSE Need(s3, {Wrap(current + OFF_SIZE)})
        s5 == St(s4, Wrap(current + OFF_SIZE), aSize)
    IN  [st |-> s5, ret |-> ptr]

\* free(ptr); return new_ptr; once the payload is copied
FreeOld(s, ptr, new_ptr) ==
    IF s.status # "run" THEN [st |-> s, ret |-> NULL]
    ELSE [st |-> free(s, ptr), ret |-> new_ptr]

\* memcpy(new_ptr, ptr, min(current->size, aSize))
CopyPayload(s, new_ptr, ptr, current, aSize) ==
    IF s.status # "run" THEN s
    ELSE MemCopy(s, new_ptr, ptr,
                 IF size_of(s, current) < aSize THEN size_of(s, current) ELSE aSize)

\* a faulty Case 3: the old block is released before the result of
\* malloc is looked at
MoveToFreeingFirst(r, ptr, current, aSize) ==
    IF r.st.status # "run" THEN [st |-> r.st, ret |-> NULL]
    ELSE IF r.ret = NULL THEN [st |-> free(r.st, ptr), ret |-> NULL]
    ELSE FreeOld(CopyPayload(Need(r.st, {Wrap(current + OFF_SIZE)}),
                             r.ret, ptr, current, aSize),
                 ptr, r.ret)

\* the rest of Case 3 once malloc has returned r
MoveTo(r, ptr, current, aSize) ==
    IF r.st.status # "run" \/ r.ret = NULL THEN [st |-> r.st, ret |-> NULL]
    ELSE FreeOld(CopyPayload(Need(r.st, {Wrap(current + OFF_SIZE)}),
                             r.ret, ptr, current, aSize),
                 ptr, r.ret)

\* Case 3: allocate a new block, copy, release the old one
Relocate(s, ptr, current, size, aSize, grant) ==
    MoveTo(malloc(s, size, grant), ptr, current, aSize)

\* Case 2 applies: the successor exists, is free, and the merged size
\* reaches the request
CanGrowInPlace(s, current, aSize) ==
    /\ next_of(s, current) # NULL
    /\ is_free(s, next_of(s, current)) # 0
    /\ Wrap(size_of(s, current) + PADDED_HEADER_SIZE + size_of(s, next_of(s, current)))
          >= aSize

\* a faulty realloc without Edge Case 1: a NULL pointer is refused, and
\* every other request is met by relocation
reallocRefusingNull(s, ptr, size, grant) ==
    IF ptr = NULL THEN [st |-> s, ret |-> NULL]
    ELSE IF size = 0 THEN [st |-> free(s, ptr), ret |-> NULL]
    ELSE Relocate(s, ptr, Wrap(ptr - PADDED_HEADER_SIZE), size, AlignUp(size), grant)

realloc(s, ptr, size, grant) ==
    IF ptr = NULL THEN malloc(s, size, grant)
    ELSE IF size = 0 THEN [st |-> free(s, ptr), ret |-> NULL]
    ELSE
    LET aSize == AlignUp(size)
        current == Wrap(ptr - PADDED_HEADER_SIZE)
        s0 == Need(s, {Wrap(current + OFF_SIZE)})
        s1 == Need(s0, {Wrap(current + OFF_NEXT)})
        s2 == IF next_of(s1, current) # NULL
              THEN Need(s1, {Wrap(next_of(s1, current) + OFF_FREE)}) ELSE s1
        s3 == IF next_of(s1, current) # NULL /\ is_free(s2, next_of(s1, current)) # 0
              THEN Need(s2, {Wrap(next_of(s1, current) + OFF_SIZE)})
              ELSE s2
    IN  IF s0.status # "run" THEN [st |-> s0, ret |-> NULL]
        ELSE IF size_of(s0, current) >= aSize THEN ShrinkInPlace(s0, ptr, current, aSize)
        ELSE IF s3.status # "run" THEN [st |-> s3, ret |-> NULL]
        ELSE IF CanGrowInPlace(s3, current, aSize)
             THEN GrowInPlace(s3, ptr, current, aSize)
        ELSE Relocate(s3, ptr, current, size, aSize, grant)

(* ------------------------------------------------------------------ *)
(* The process: the allocator's memory and its client                   *)
(* ------------------------------------------------------------------ *)

VARIABLES
    mem,        \* the words of the arena
    heap_head,  \* static Header *heap_head
    brk,        \* the program break
    errno,      \* the error signal
    status,     \* "run", "fault" or "hang"
    live,       \* the client's pointers: pointer -> bytes it asked for
    freed,      \* the pointer the previous call released, or NULL
    call,       \* the call just made: operation, arguments, result
    nops,       \* calls made so far
    debug_env,  \* whether DEBUG_MALLOC is set in the environment
    debug_mode, \* static int debug_mode
    trace       \* the trace lines the call just made has printed

vars == <<mem, heap_head, brk, errno, status, live, freed, call, nops,
          debug_env, debug_mode, trace>>

\* the machine state the operators above work on
Cur == [mem |-> mem, heap_head |-> heap_head, brk |-> brk,
        errno |-> errno, status |-> status]

\* the sizes the client asks for: a small and a medium request, the
\* payload of the whole bootstrap chunk, a request larger than the
\* chunk, and requests at the top of the range of size_t
ReqSizes == {0, 1, 40, initial_chunk_size - PADDED_HEADER_SIZE,
             SIZE_MAX - ALGN, SIZE_MAX}

\* the word the client writes into its payload, and where
UserVals == {5}
UserOffs == {0}

\* the (count, element size) pairs the client passes to calloc
CallocArgs == {<<3, ALGN>>}

\* the operating system's answers during one call
Grants == 0 .. 2

\* debug_mode before the environment has been looked at (line 13)
DEBUG_UNREAD == -1

NoCall == [op |-> "none", ptr |-> NULL, n |-> 0, m |-> 0, ret |-> NULL]

\* the process before its first call
Fresh ==
    /\ mem = << >>
    /\ heap_head = NULL
    /\ brk = HeapBase
    /\ errno = 0
    /\ status = "run"
    /\ live = << >>
    /\ freed = NULL
    /\ call = NoCall
    /\ nops = 0
    /\ debug_mode = DEBUG_UNREAD
    /\ trace = 0

\* the process is started without DEBUG_MALLOC in its environment
Init == Fresh /\ debug_env = FALSE

\* static int check_debug_mode(void): the value it returns and the value
\* it leaves in debug_mode; the environment is read only while
\* debug_mode is -1
check_debug_mode(dm, env) ==
    IF dm = DEBUG_UNREAD THEN (IF env THEN 1 ELSE 0) ELSE dm

\* the condition of `if(check_debug_mode)`: the name of the function
\* without a call, that is its address, which is never null; the
\* function is not called, so debug_mode and the environment are not
\* read
DebugTest == TRUE

\* pp(stdout, ...) under `if(check_debug_mode)`, k times
Emit(k) == IF DebugTest THEN k ELSE 0

\* the trace lines of a call of malloc: the one of line 132 or of line
\* 168, printed on the two paths that return a block
mallocTrace(ret) == Emit(IF ret # NULL THEN 1 ELSE 0)

\* the trace line of free, printed first thing (line 182)
freeTrace == Emit(1)

\* calloc: malloc's line and the line of line 274, for a block
callocTrace(ret) == IF ret # NULL THEN mallocTrace(ret) + Emit(1) ELSE 0

\* realloc: the lines of malloc or of free in the two edge cases, the
\* line of Case 1 (333) or Case 2 (378), or, in Case 3, the lines of
\* malloc, of free and of line 409
reallocTrace(s, ptr, size, ret) ==
    IF ptr = NULL THEN mallocTrace(ret)
    ELSE IF size = 0 THEN freeTrace
    ELSE IF \/ size_of(s, Wrap(ptr - PADDED_HEADER_SIZE)) >= AlignUp(size)
            \/ CanGrowInPlace(s, Wrap(ptr - PADDED_HEADER_SIZE), AlignUp(size))
         THEN Emit(1)
    ELSE IF ret = NULL THEN 0
    ELSE mallocTrace(ret) + freeTrace + Emit(1)

\* the machine state after a call
Install(s) ==
    /\ mem' = s.mem
    /\ heap_head' = s.heap_head
    /\ brk' = s.brk
    /\ errno' = s.errno
    /\ status' = s.status
    /\ UNCHANGED <<debug_env, debug_mode>>

\* the client's pointers with p dropped / with p |-> n added
Drop(f, p) == [x \in DOMAIN f \ {p} |-> f[x]]
Hold(f, p, n) == [x \in DOMAIN f \cup {p} |-> IF x = p THEN n ELSE f[x]]

DoMalloc(n, grant) ==
    /\ \E r \in {malloc(Cur, n, grant)} :
           /\ Install(r.st)
           /\ live' = IF r.ret # NULL /\ r.st.status = "run"
                      THEN Hold(live, r.ret, n) ELSE live
           /\ call' = [op |-> "malloc", ptr |-> NULL, n |-> n, m |-> 0, ret |-> r.ret]
           /\ trace' = mallocTrace(r.ret)
    /\ freed' = NULL
    /\ nops' = nops + 1

\* free(p) found the block already free and returned at once (lines
\* 193-195)
FoundFree(s, p) ==
    /\ p # NULL
    /\ Need(s, {Wrap(Wrap(p - PADDED_HEADER_SIZE) + OFF_FREE)}).status = "run"
    /\ is_free(s, Wrap(p - PADDED_HEADER_SIZE)) # 0

\* the call record of free notes in m whether the call was such a
\* repeated release
DoFree(p) ==
    /\ \E s \in {free(Cur, p)} : Install(s)
    /\ live' = Drop(live, p)
    /\ freed' = p
    /\ call' = [op |-> "free", ptr |-> p, n |-> 0,
                m |-> IF FoundFree(Cur, p) THEN 1 ELSE 0, ret |-> NULL]
    /\ trace' = freeTrace
    /\ nops' = nops + 1

DoCalloc(nmemb, size, grant) ==
    /\ \E r \in {calloc(Cur, nmemb, size, grant)} :
           /\ Install(r.st)
           /\ live' = IF r.ret # NULL /\ r.st.status = "run"
                      THEN Hold(live, r.ret, nmemb * size) ELSE live
           /\ call' = [op |-> "calloc", ptr |-> NULL, n |-> size, m |-> nmemb,
                       ret |-> r.ret]
           /\ trace' = callocTrace(r.ret)
    /\ freed' = NULL
    /\ nops' = nops + 1

DoRealloc(p, n, grant) ==
    /\ \E r \in {realloc(Cur, p, n, grant)} :
           /\ Install(r.st)
           /\ live' = IF r.st.status # "run" THEN live
                      ELSE IF r.ret # NULL THEN Hold(Drop(live, p), r.ret, n)
                      ELSE IF n = 0 THEN Drop(live, p)
                      ELSE live
           /\ freed' = IF p # NULL /\ n = 0 THEN p ELSE NULL
           /\ call' = [op |-> "realloc", ptr |-> p, n |-> n, m |-> 0, ret |-> r.ret]
           /\ trace' = reallocTrace(Cur, p, n, r.ret)
    /\ nops' = nops + 1

\* the client writes a word of its payload; it stays inside the bytes
\* it asked for and inside the usable size the directory records
DoStore(p, off, v) ==
    /\ off < live[p]
    /\ off + WORD <= size_of(Cur, Wrap(p - PADDED_HEADER_SIZE))
    /\ Install(St(Cur, Wrap(p + off), v))
    /\ call' = [op |-> "store", ptr |-> p, n |-> off, m |-> v, ret |-> NULL]
    /\ trace' = 0
    /\ freed' = NULL
    /\ nops' = nops + 1
    /\ UNCHANGED live

\* the process is alive and the client has calls left
CanCall(budget) == status = "run" /\ nops < budget

Next ==
    \/ CanCall(MaxOps) /\ \E n \in ReqSizes, grant \in Grants : DoMalloc(n, grant)
    \/ CanCall(MaxOps) /\ \E p \in DOMAIN live \cup {NULL, freed} : DoFree(p)
    \/ CanCall(MaxOps) /\ \E a \in CallocArgs, grant \in Grants :
          DoCalloc(a[1], a[2], grant)
    \/ CanCall(MaxOps) /\ \E p \in DOMAIN live \cup {NULL}, n \in ReqSizes, grant \in Grants :
          DoRealloc(p, n, grant)
    \/ CanCall(MaxOps) /\ \E p \in DOMAIN live, off \in UserOffs, v \in UserVals :
          DoStore(p, off, v)

Spec == Init /\ [][Next]_vars

\* The same process with a client whose requests all fit the bootstrap
\* chunk, so that no size computation wraps.
PlainSizes == {n \in ReqSizes : n <= initial_chunk_size}

NextPlain ==
    \/ CanCall(MaxOps) /\ \E n \in PlainSizes, grant \in Grants : DoMalloc(n, grant)
    \/ CanCall(MaxOps) /\ \E p \in DOMAIN live \cup {NULL, freed} : DoFree(p)
    \/ CanCall(MaxOps) /\ \E a \in CallocArgs, grant \in Grants :
          DoCalloc(a[1], a[2], grant)
    \/ CanCall(MaxOps) /\ \E p \in DOMAIN live \cup {NULL}, n \in PlainSizes, grant \in Grants :
          DoRealloc(p, n, grant)
    \/ CanCall(MaxOps) /\ \E p \in DOMAIN live, off \in UserOffs, v \in UserVals :
          DoStore(p, off, v)

SpecPlain == Init /\ [][NextPlain]_vars

\* The same process with a client that makes one call more: it calls
\* malloc, free and realloc with non-zero sizes below the top of the
\* range, and the operating system grants every request.
DeepSizes == {n \in ReqSizes : 0 < n /\ n < SIZE_MAX}

NextDeep ==
    \/ CanCall(MaxOps + 1) /\ \E n \in DeepSizes : DoMalloc(n, 2)
    \/ CanCall(MaxOps + 1) /\ \E p \in DOMAIN live : DoFree(p)
    \/ CanCall(MaxOps + 1) /\ \E p \in DOMAIN live, n \in DeepSizes : DoRealloc(p, n, 2)

SpecDeep == Init /\ [][NextDeep]_vars

\* The same process with a client that allocates chiefly through calloc:
\* counts of single bytes up to the top of the range of size_t, and
\* (count, element size) pairs whose product does not fit size_t.
CallocWide == CallocArgs \cup {<<1, 1>>, <<40, 1>>, <<SIZE_MAX - ALGN, 1>>,
                               <<SIZE_MAX, 1>>, <<SIZE_MAX, 2>>, <<2, SIZE_MAX>>}
CallocSizes == {40}

NextCalloc ==
    \/ CanCall(MaxOps) /\ \E a \in CallocWide, grant \in Grants :
          DoCalloc(a[1], a[2], grant)
    \/ CanCall(MaxOps) /\ \E n \in CallocSizes, grant \in Grants : DoMalloc(n, grant)
    \/ CanCall(MaxOps) /\ \E p \in DOMAIN live : DoFree(p)
    \/ CanCall(MaxOps) /\ \E p \in DOMAIN live, off \in UserOffs, v \in UserVals :
          DoStore(p, off, v)

SpecCalloc == Init /\ [][NextCalloc]_vars

\* The same process started with or without DEBUG_MALLOC in its
\* environment, with a client of small requests.
InitDebug == Fresh /\ debug_env \in BOOLEAN
DebugSizes == {0, 1, 40}

NextDebug ==
    \/ CanCall(MaxOps) /\ \E n \in DebugSizes, grant \in Grants : DoMalloc(n, grant)
    \/ CanCall(MaxOps) /\ \E p \in DOMAIN live \cup {NULL, freed} : DoFree(p)
    \/ CanCall(MaxOps) /\ \E a \in CallocArgs, grant \in Grants :
          DoCalloc(a[1], a[2], grant)
    \/ CanCall(MaxOps) /\ \E p \in DOMAIN live \cup {NULL}, n \in DebugSizes, grant \in Grants :
          DoRealloc(p, n, grant)

SpecDebug == InitDebug /\ [][NextDebug]_vars

\* The same process with a client that also passes free an address
\* inside the bytes it asked for, not only their first byte.
InteriorOffs == {0, ALGN}
InteriorSizes == {1, 40}

NextInterior ==
    \/ CanCall(MaxOps) /\ \E n \in InteriorSizes, grant \in Grants : DoMalloc(n, grant)
    \/ CanCall(MaxOps) /\ \E p \in DOMAIN live, off \in InteriorOffs :
          off < live[p] /\ DoFree(p + off)
    \/ CanCall(MaxOps) /\ \E p \in DOMAIN live, off \in UserOffs, v \in UserVals :
          DoStore(p, off, v)

SpecInterior == Init /\ [][NextInterior]_vars

(* ------------------------------------------------------------------ *)
(* The block directory as the words of memory describe it               *)
(* ------------------------------------------------------------------ *)

\* all four words of the header at h lie inside the arena
HdrOk(s, h) == h % WORD = 0 /\ HeapBase <= h /\ h + HEADER_SIZE <= s.brk

RECURSIVE ChainFrom(_, _, _)
ChainFrom(s, h, acc) ==
    IF h = NULL \/ ~HdrOk(s, h) \/ \E i \in 1 .. Len(acc) : acc[i] = h THEN acc
    ELSE ChainFrom(s, next_of(s, h), Append(acc, h))

\* the headers reached from heap_head by next links, in list order
Chain(s) == ChainFrom(s, s.heap_head, << >>)
Blocks(s) == {Chain(s)[i] : i \in 1 .. Len(Chain(s))}

\* the header of the block a payload pointer designates
HeaderOf(p) == Wrap(p - PADDED_HEADER_SIZE)

Running == status = "run"

(* ------------------------------------------------------------------ *)
(* C1                                                                   *)
(* ------------------------------------------------------------------ *)

\* C1: in every state reached by any sequence of malloc, free, calloc
\* and realloc calls, no free block of the directory has an immediate
\* successor that is free too.
C1_NoAdjacentFree ==
    Running =>
        \A i \in 1 .. Len(Chain(Cur)) - 1 :
            ~(is_free(Cur, Chain(Cur)[i]) # 0 /\ is_free(Cur, Chain(Cur)[i + 1]) # 0)

(* ------------------------------------------------------------------ *)
(* C2                                                                   *)
(* ------------------------------------------------------------------ *)

\* C2: in every reachable state, every block b with a successor ends at
\* or before it: b + padded header size + size(b) <= successor(b).
C2_NoOverlap ==
    Running =>
        \A i \in 1 .. Len(Chain(Cur)) - 1 :
            Chain(Cur)[i] + PADDED_HEADER_SIZE + size_of(Cur, Chain(Cur)[i])
                <= Chain(Cur)[i + 1]

(* ------------------------------------------------------------------ *)
(* C3                                                                   *)
(* ------------------------------------------------------------------ *)

\* C3: for every n > 0 of the whole range of size_t, a non-null result
\* of malloc(n) designates a block that is in use and whose recorded
\* usable size is at least n.
C3_MallocGrantsRequest ==
    (Running /\ call.op = "malloc" /\ call.n > 0 /\ call.ret # NULL) =>
        /\ is_free(Cur, HeaderOf(call.ret)) = 0
        /\ size_of(Cur, HeaderOf(call.ret)) >= call.n

(* ------------------------------------------------------------------ *)
(* C4                                                                   *)
(* ------------------------------------------------------------------ *)

\* C4: every non-null pointer malloc(n), n > 0, returns is a multiple
\* of 16, whether the block came from a free block, from the bootstrap
\* grant or from a later growth of the arena.
C4_MallocAligned ==
    (call.op = "malloc" /\ call.n > 0 /\ call.ret # NULL) => call.ret % ALGN = 0

\* malloc has returned a block of a later growth of the arena, after
\* blocks were served from the bootstrap chunk
C4_Witness ==
    /\ Running /\ call.op = "malloc" /\ call.n > 0
    /\ call.ret > HeapBase + initial_chunk_size
    /\ \E p \in DOMAIN live : p < HeapBase + initial_chunk_size

(* ------------------------------------------------------------------ *)
(* Steps: the state before a call (Cur) and after it (Cur')             *)
(* ------------------------------------------------------------------ *)

\* position of header h in the chain of s (0 when it is not on it)
IndexOf(s, h) ==
    IF h \in Blocks(s) THEN CHOOSE i \in 1 .. Len(Chain(s)) : Chain(s)[i] = h ELSE 0

\* the chain neighbours of h in s (NULL when absent)
SuccOf(s, h) ==
    IF IndexOf(s, h) = 0 \/ IndexOf(s, h) = Len(Chain(s)) THEN NULL
    ELSE Chain(s)[IndexOf(s, h) + 1]
PredOf(s, h) ==
    IF IndexOf(s, h) <= 1 THEN NULL ELSE Chain(s)[IndexOf(s, h) - 1]

\* h is absent or an in-use block
InUseOrAbsent(s, h) == h = NULL \/ is_free(s, h) = 0

\* block x ends at or before block y
EndsBefore(s, x, y) == x + PADDED_HEADER_SIZE + size_of(s, x) <= y

\* the chain of s with header h taken out
ChainWithout(s, h) == SelectSeq(Chain(s), LAMBDA x : x # h)

\* the payload words of [p, p + n) are the same in s and t
SameBytes(s, p, t, q, n) ==
    /\ \A x \in DOMAIN s.mem : InRange(x, p, n) => Rd(t, q + (x - p)) = s.mem[x]
    /\ \A y \in DOMAIN t.mem : InRange(y, q, n) => Rd(s, p + (y - q)) = t.mem[y]

\* a malloc(n), n > 0, has just returned a block
MallocReturned ==
    call'.op = "malloc" /\ call'.n > 0 /\ call'.ret # NULL /\ status' = "run"

\* ... and the block was already in the directory when the call began
\* (or is the block the call's bootstrap installed)
ServedFromDirectory ==
    /\ MallocReturned
    /\ IF heap_head = NULL THEN HeaderOf(call'.ret) = heap_head'
       ELSE HeaderOf(call'.ret) \in Blocks(Cur)

(* ------------------------------------------------------------------ *)
(* C5                                                                   *)
(* ------------------------------------------------------------------ *)

C5_Step ==
    (ServedFromDirectory /\ heap_head # NULL) =>
        LET b == HeaderOf(call'.ret)
            a == AlignUp(call'.n)
        IN  /\ is_free(Cur, b) # 0
            /\ size_of(Cur, b) >= a
            /\ \A c \in Blocks(Cur) :
                  (is_free(Cur, c) # 0 /\ size_of(Cur, c) >= a) => b <= c

\* C5: first fit: the block malloc hands out of the directory is the
\* lowest-address block that is free and at least as large as the
\* aligned request; no such block at a lower address is skipped.
C5_FirstFit == [][C5_Step]_vars

(* ------------------------------------------------------------------ *)
(* C6                                                                   *)
(* ------------------------------------------------------------------ *)

C6_Step ==
    ServedFromDirectory =>
        LET b == HeaderOf(call'.ret)
            a == AlignUp(call'.n)
            S == IF heap_head = NULL THEN (brk' - brk) - PADDED_HEADER_SIZE
                 ELSE size_of(Cur, b)
            N == IF heap_head = NULL THEN NULL ELSE next_of(Cur, b)
            nb == b + PADDED_HEADER_SIZE + a
        IN  IF S >= a + PADDED_HEADER_SIZE + ALGN
            THEN /\ size_of(Cur', b) = a
                 /\ next_of(Cur', b) = nb
                 /\ is_free(Cur', nb) # 0
                 /\ size_of(Cur', nb) = S - a - PADDED_HEADER_SIZE
                 /\ next_of(Cur', nb) = N
                 /\ prev_of(Cur', nb) = b
            ELSE /\ size_of(Cur', b) = S
                 /\ next_of(Cur', b) = N

\* C6: malloc splits the selected free block of size S for the aligned
\* request a exactly when S >= a + padded header size + 16; a split
\* leaves the block with size a and links a free block of size
\* S - a - padded header size right after it, at payload start + a;
\* otherwise the block is handed out with its size S unchanged.
C6_SplitRule == [][C6_Step]_vars

(* ------------------------------------------------------------------ *)
(* C7                                                                   *)
(* ------------------------------------------------------------------ *)

\* free(p) has just released the client's in-use block p
FreedLive ==
    /\ call'.op = "free" /\ call'.ptr # NULL /\ status' = "run"
    /\ call'.ptr \in DOMAIN live
    /\ HeaderOf(call'.ptr) \in Blocks(Cur)
    /\ is_free(Cur, HeaderOf(call'.ptr)) = 0

C7_Step ==
    FreedLive =>
        LET b == HeaderOf(call'.ptr)
            P == PredOf(Cur, b)
            N == SuccOf(Cur, b)
        IN  \* the first release of a pair: both neighbours in use
            /\ (InUseOrAbsent(Cur, P) /\ InUseOrAbsent(Cur, N)) =>
                  /\ Chain(Cur') = Chain(Cur)
                  /\ is_free(Cur', b) # 0
                  /\ size_of(Cur', b) = size_of(Cur, b)
            \* the second release, the block after b released first
            /\ (/\ InUseOrAbsent(Cur, P)
                /\ N # NULL /\ is_free(Cur, N) # 0 /\ EndsBefore(Cur, b, N)
                /\ InUseOrAbsent(Cur, SuccOf(Cur, N))) =>
                  /\ Chain(Cur') = ChainWithout(Cur, N)
                  /\ is_free(Cur', b) # 0
                  /\ size_of(Cur', b) =
                        size_of(Cur, b) + size_of(Cur, N) + PADDED_HEADER_SIZE
            \* the second release, the block before b released first
            /\ (/\ InUseOrAbsent(Cur, N)
                /\ P # NULL /\ is_free(Cur, P) # 0 /\ EndsBefore(Cur, P, b)
                /\ InUseOrAbsent(Cur, PredOf(Cur, P))) =>
                  /\ Chain(Cur') = ChainWithout(Cur, b)
                  /\ is_free(Cur', P) # 0
                  /\ size_of(Cur', P) =
                        size_of(Cur, P) + size_of(Cur, b) + PADDED_HEADER_SIZE

\* C7: coalescing law: releasing two address-adjacent in-use blocks A
\* and B whose outer neighbours are in use or absent, in either order,
\* leaves one free block in their place, of size
\* size(A) + size(B) + padded header size.
C7_CoalescingLaw == [][C7_Step]_vars

(* ------------------------------------------------------------------ *)
(* C8, C10                                                              *)
(* ------------------------------------------------------------------ *)

\* realloc(p, n) with n > 0 and p one of the client's pointers, an
\* in-use block of the directory, has just returned
ReallocReturned ==
    /\ call'.op = "realloc" /\ call'.ptr # NULL /\ call'.n > 0 /\ status' = "run"
    /\ call'.ptr \in DOMAIN live
    /\ HeaderOf(call'.ptr) \in Blocks(Cur)
    /\ is_free(Cur, HeaderOf(call'.ptr)) = 0

\* the request cannot be met in place: the block is too small and its
\* successor is absent, in use, or free but too small (the size the
\* merged block would record, a size_t, is below the request)
MustRelocate(s, b, a) ==
    /\ size_of(s, b) < a
    /\ \/ next_of(s, b) = NULL
       \/ is_free(s, next_of(s, b)) = 0
       \/ Wrap(size_of(s, b) + PADDED_HEADER_SIZE + size_of(s, next_of(s, b))) < a

C8_Step ==
    (ReallocReturned /\ call'.ret = NULL) =>
        LET p == call'.ptr
            b == HeaderOf(p)
        IN  /\ MustRelocate(Cur, b, AlignUp(call'.n))
            /\ b \in Blocks(Cur')
            /\ is_free(Cur', b) = 0
            /\ size_of(Cur', b) = size_of(Cur, b)
            /\ SameBytes(Cur, p, Cur', p, size_of(Cur, b))

\* C8: realloc fails only on the relocation path, when the replacement
\* allocation fails, and then the original block is still in use at the
\* same address with the same recorded size and the same payload.
C8_ReallocFailureAtomic == [][C8_Step]_vars

\* realloc of an in-use block, to which the client has written, has
\* failed: it returned NULL and the signal is ENOMEM
C8_Witness ==
    /\ Running /\ call.op = "realloc" /\ call.n > 0 /\ call.ret = NULL
    /\ call.ptr \in DOMAIN live
    /\ is_free(Cur, HeaderOf(call.ptr)) = 0
    /\ Rd(Cur, call.ptr) \in UserVals
    /\ errno = ENOMEM

(* ------------------------------------------------------------------ *)
(* C9                                                                   *)
(* ------------------------------------------------------------------ *)

C9_Step ==
    (call'.op = "malloc" /\ call'.n > 0 /\ call'.ret = NULL /\ status' = "run") =>
        /\ errno' = ENOMEM
        /\ heap_head' = heap_head
        /\ mem' = mem

\* C9: when the operating system refuses the extension request, malloc
\* returns NULL, sets errno to ENOMEM and leaves the directory exactly
\* as it was before the call (still empty after a refused bootstrap).
C9_OutOfMemoryAtomic == [][C9_Step]_vars

C10_Step ==
    (/\ ReallocReturned /\ call'.ret # NULL
     /\ MustRelocate(Cur, HeaderOf(call'.ptr), AlignUp(call'.n))) =>
        LET p == call'.ptr
            b == HeaderOf(p)
            a == AlignUp(call'.n)
            S == size_of(Cur, b)
            q == call'.ret
        IN  /\ q # p
            /\ is_free(Cur', HeaderOf(q)) = 0
            /\ size_of(Cur', HeaderOf(q)) >= a
            /\ SameBytes(Cur, p, Cur', q, IF S < a THEN S ELSE a)
            /\ \E c \in Blocks(Cur') :
                  /\ is_free(Cur', c) # 0
                  /\ c <= b
                  /\ b < c + PADDED_HEADER_SIZE + size_of(Cur', c)

\* C10: a realloc that cannot be met in place and whose replacement
\* allocation succeeds returns a different pointer to an in-use block
\* of size >= the aligned request whose first min(old size, aligned
\* request) bytes are the old payload's, and the old block is free
\* (it is, or lies in, a free block of the directory).
C10_Relocation == [][C10_Step]_vars

(* ------------------------------------------------------------------ *)
(* C11                                                                  *)
(* ------------------------------------------------------------------ *)

C11_Step ==
    (ReallocReturned /\ size_of(Cur, HeaderOf(call'.ptr)) >= AlignUp(call'.n)) =>
        /\ call'.ret = call'.ptr
        /\ brk' = brk
        /\ is_free(Cur', HeaderOf(call'.ptr)) = 0
        /\ size_of(Cur', HeaderOf(call'.ptr)) >= call'.n

\* C11: for every in-use p and every s > 0 of the whole range of
\* size_t, a realloc(p, s) that finds current size >= aligned s returns
\* p itself, does not extend the arena, and leaves p's block in use
\* with recorded size >= s.
C11_ShrinkInPlace == [][C11_Step]_vars

(* ------------------------------------------------------------------ *)
(* C12                                                                  *)
(* ------------------------------------------------------------------ *)

\* p's block b is too small for the aligned request a, its successor is
\* free, and the two together with the header between them reach a
GrowsInPlace(s, b, a) ==
    /\ size_of(s, b) < a
    /\ next_of(s, b) # NULL
    /\ is_free(s, next_of(s, b)) # 0
    /\ size_of(s, b) + PADDED_HEADER_SIZE + size_of(s, next_of(s, b)) >= a

C12_Step ==
    (ReallocReturned /\ GrowsInPlace(Cur, HeaderOf(call'.ptr), AlignUp(call'.n))) =>
        LET b == HeaderOf(call'.ptr)
            a == AlignUp(call'.n)
            N == next_of(Cur, b)
        IN  /\ call'.ret = call'.ptr
            /\ brk' = brk
            \* the successor's entry is gone (the entry of a re-split
            \* remainder, at b's payload start + a, is a new one)
            /\ N \notin Blocks(Cur') \/ N = b + PADDED_HEADER_SIZE + a
            /\ is_free(Cur', b) = 0
            /\ size_of(Cur', b) >= a

\* C12: grow in place: when p's block is smaller than the aligned
\* request, its immediate successor is free, and current size + padded
\* header size + successor size >= the aligned request, realloc returns
\* p itself without extending the arena, the successor is removed from
\* the directory, and p's block ends in use with recorded size >= the
\* aligned request.
C12_GrowInPlace == [][C12_Step]_vars

(* ------------------------------------------------------------------ *)
(* C13                                                                  *)
(* ------------------------------------------------------------------ *)

\* realloc(p, 0), p one of the client's pointers and an in-use block of
\* the directory, has just returned
ReallocZeroReturned ==
    /\ call'.op = "realloc" /\ call'.ptr # NULL /\ call'.n = 0 /\ status' = "run"
    /\ call'.ptr \in DOMAIN live
    /\ HeaderOf(call'.ptr) \in Blocks(Cur)
    /\ is_free(Cur, HeaderOf(call'.ptr)) = 0

\* malloc(m) in state s is served without the operating system granting
\* anything
ServedWithoutGrowth(s, m) ==
    /\ malloc(s, m, 0).st.status = "run"
    /\ malloc(s, m, 0).ret # NULL
    /\ malloc(s, m, 0).st.brk = s.brk

C13_Step ==
    ReallocZeroReturned =>
        /\ call'.ret = NULL
        /\ Cur' = free(Cur, call'.ptr)
        /\ \A m \in ReqSizes :
              (0 < m /\ m <= size_of(Cur, HeaderOf(call'.ptr))) =>
                  ServedWithoutGrowth(Cur', m)

\* C13: realloc(p, 0) for a non-null in-use p returns NULL and leaves
\* the directory in exactly the state free(p) would leave it; a malloc(m)
\* that follows, with 0 < m <= the released block's size, succeeds
\* without any extension of the arena.
C13_ReallocZeroIsFree == [][C13_Step]_vars

(* ------------------------------------------------------------------ *)
(* C14                                                                  *)
(* ------------------------------------------------------------------ *)

C14_Step ==
    (call'.op = "realloc" /\ call'.ptr = NULL) =>
        \E grant \in Grants :
            /\ call'.ret = malloc(Cur, call'.n, grant).ret
            /\ Cur' = malloc(Cur, call'.n, grant).st

\* C14: realloc(NULL, s) is malloc(s) for every s, s = 0 and the
\* uninitialised directory included: it returns what malloc(s) returns
\* (NULL when malloc fails) and leaves the memory, the directory, the
\* arena extent and errno as malloc(s) leaves them.
C14_ReallocNullIsMalloc == [][C14_Step]_vars

\* realloc(NULL, s), s > 0, has handed out a block
C14_Witness ==
    /\ Running /\ call.op = "realloc" /\ call.ptr = NULL /\ call.n > 0
    /\ call.ret # NULL /\ call.ret \in DOMAIN live
    /\ is_free(Cur, HeaderOf(call.ret)) = 0

(* ------------------------------------------------------------------ *)
(* C15                                                                  *)
(* ------------------------------------------------------------------ *)

\* every byte of [p, p + n) reads back as zero in s
AllZero(s, p, n) == \A x \in DOMAIN s.mem : InRange(x, p, n) => s.mem[x] = 0

\* calloc(n, 1), n > 0, has been called and has passed its guard
CallocBytesCalled ==
    call'.op = "calloc" /\ call'.n = 1 /\ call'.m > 0 /\ status = "run"

C15_Step ==
    CallocBytesCalled =>
        \* the zero-fill stays inside the arena
        /\ status' = "run"
        /\ call'.ret # NULL =>
              LET b == HeaderOf(call'.ret)
              IN  /\ b \in Blocks(Cur')
                  /\ is_free(Cur', b) = 0
                  /\ size_of(Cur', b) >= call'.m
                  /\ call'.ret + call'.m <= brk'
                  /\ AllZero(Cur', call'.ret, call'.m)

\* C15: calloc(n, 1) for every n > 0 of the range of size_t: a non-null
\* result designates an in-use block of the directory whose payload holds
\* at least n bytes, all n of them zero, and the zero-fill never writes
\* outside the granted block (nor outside the arena).
C15_CallocZeroed == [][C15_Step]_vars

(* ------------------------------------------------------------------ *)
(* C16                                                                  *)
(* ------------------------------------------------------------------ *)

C16_Step ==
    (/\ call'.op = "calloc" /\ call'.m > 0 /\ call'.n > 0
     /\ call'.m * call'.n > SIZE_MAX) =>
        /\ call'.ret = NULL
        /\ errno' = ENOMEM
        /\ status' = "run"
        /\ mem' = mem
        /\ heap_head' = heap_head
        /\ brk' = brk

\* C16: for every count > 0 and element size > 0 whose product exceeds
\* SIZE_MAX, calloc returns NULL with errno set to ENOMEM and leaves the
\* directory untouched: no bootstrap, no arena extension, no block
\* changed.
C16_CallocOverflowGuard == [][C16_Step]_vars

\* calloc has refused a product that does not fit size_t, on a directory
\* that holds a block of the client's
C16_Witness ==
    /\ Running /\ call.op = "calloc" /\ call.m > 0 /\ call.n > 0
    /\ call.m * call.n > SIZE_MAX
    /\ call.ret = NULL /\ errno = ENOMEM
    /\ heap_head # NULL /\ DOMAIN live # {}

(* ------------------------------------------------------------------ *)
(* C17                                                                  *)
(* ------------------------------------------------------------------ *)

C17_Step ==
    (call'.op = "malloc" /\ call'.n = 0) =>
        /\ call'.ret = NULL
        /\ status' = "run"
        /\ errno' = errno
        /\ mem' = mem
        /\ heap_head' = heap_head
        /\ brk' = brk

\* C17: malloc(0) returns NULL, sets no error signal and leaves the
\* directory as it was; on an uninitialised directory it performs no
\* bootstrap and asks for no extension of the arena.
C17_MallocZero == [][C17_Step]_vars

\* malloc(0) has returned on the directory no call has initialised yet
C17_Witness ==
    /\ Running /\ call.op = "malloc" /\ call.n = 0 /\ call.ret = NULL
    /\ heap_head = NULL /\ brk = HeapBase /\ errno = 0

(* ------------------------------------------------------------------ *)
(* C18                                                                  *)
(* ------------------------------------------------------------------ *)

\* free(p) is called again right after a free(p) that returned
C18_Step ==
    (/\ call.op = "free" /\ status = "run"
     /\ call'.op = "free" /\ call'.ptr # NULL /\ call'.ptr = call.ptr) =>
        Cur' = Cur

\* C18: double free is a no-op: a second free(p) with no call in
\* between leaves the memory, the directory and the arena exactly as
\* the first free(p) left them, whether the first merged nothing, merged
\* forward into p's block, or merged p's block into its predecessor.
C18_DoubleFreeNoOp == [][C18_Step]_vars

\* a repeated free(p) has returned, p's block having been merged into
\* its predecessor by the release before it: p's header is off the
\* chain and it lies, with its payload, in a free block
C18_Witness ==
    /\ Running /\ call.op = "free" /\ call.m = 1 /\ call.ptr = freed
    /\ HeaderOf(call.ptr) \notin Blocks(Cur)
    /\ \E c \in Blocks(Cur) :
          /\ is_free(Cur, c) # 0
          /\ c < HeaderOf(call.ptr)
          /\ call.ptr + ALGN <= c + PADDED_HEADER_SIZE + size_of(Cur, c)

(* ------------------------------------------------------------------ *)
(* C19                                                                  *)
(* ------------------------------------------------------------------ *)

MaxOf(x, y) == IF x >= y THEN x ELSE y

\* malloc(n), n > 0, has been called on the empty directory and has
\* installed its first block
Bootstrapped ==
    /\ call'.op = "malloc" /\ call'.n > 0 /\ status' = "run"
    /\ heap_head = NULL /\ heap_head' # NULL

C19_Step ==
    Bootstrapped =>
        LET a == AlignUp(call'.n)
            R == MaxOf(initial_chunk_size, PADDED_HEADER_SIZE + a + ALGN)
            B == Bootstrap(Cur, a, TRUE).st
        IN  \* one request of R bytes was granted and no other
            /\ brk' - brk = R
            \* the grant is formatted as the single free block
            /\ heap_head' = brk
            /\ Chain(B) = << brk >>
            /\ is_free(B, brk) # 0
            /\ size_of(B, brk) = R - PADDED_HEADER_SIZE
            \* and the request is served from it
            /\ call'.ret = brk + PADDED_HEADER_SIZE

\* C19: bootstrap: the first malloc(n), n > 0, on the empty directory
\* issues exactly one extension request, of exactly
\* max(64 KiB, padded header size + aligned n + 16) bytes, installs the
\* whole grant as one free block of size grant - padded header size and
\* serves the request from that block; the call makes no second
\* extension request.
C19_Bootstrap == [][C19_Step]_vars

(* ------------------------------------------------------------------ *)
(* C20                                                                  *)
(* ------------------------------------------------------------------ *)

\* some free block of the directory is at least a bytes large
SomeFreeFits(s, a) ==
    \E c \in Blocks(s) : is_free(s, c) # 0 /\ size_of(s, c) >= a

C20_Step ==
    (call'.op = "malloc" /\ call'.n > 0 /\ status' = "run" /\ heap_head # NULL) =>
        LET a == AlignUp(call'.n)
            b == brk
            tail == Chain(Cur)[Len(Chain(Cur))]
        IN  /\ SomeFreeFits(Cur, a) => brk' = brk
            /\ brk' # brk =>
                  /\ ~SomeFreeFits(Cur, a)
                  /\ brk' - brk = PADDED_HEADER_SIZE + a + ALGN
                  /\ call'.ret = b + PADDED_HEADER_SIZE
                  /\ is_free(Cur', b) = 0
                  /\ size_of(Cur', b) = a
                  /\ next_of(Cur', b) = NULL
                  /\ prev_of(Cur', b) = tail
                  /\ Chain(Cur') = Append(Chain(Cur), b)

\* C20: after the bootstrap malloc extends the arena only when no free
\* block of the directory has size >= the aligned request; it then
\* requests exactly padded header size + aligned request + 16 bytes and
\* the grant becomes a new in-use block of size = the aligned request,
\* linked after the previous tail as the new tail (next = NULL); when
\* some free block fits, malloc leaves the arena extent unchanged.
C20_GrowthRule == [][C20_Step]_vars

(* ------------------------------------------------------------------ *)
(* C21                                                                  *)
(* ------------------------------------------------------------------ *)

\* the headers of the chain of s stand in strictly increasing address
\* order
Ascending(s) ==
    \A i \in 1 .. Len(Chain(s)) - 1 : Chain(s)[i] < Chain(s)[i + 1]

C21_Step ==
    (status = "run" /\ status' = "run") =>
        /\ heap_head # NULL => heap_head' = heap_head
        /\ Ascending(Cur) => Ascending(Cur')

\* C21: the first header's address, once the bootstrap has set it, never
\* changes, and the next links from it visit the headers in strictly
\* increasing address order: no operation (split, forward or backward
\* merge, growth, realloc) reorders the list.
C21_AddressOrder == [][C21_Step]_vars

(* ------------------------------------------------------------------ *)
(* C22                                                                  *)
(* ------------------------------------------------------------------ *)

\* C22: in every reachable state every block's recorded size is a
\* multiple of 16, and every free block of the directory has size >= 16.
C22_SizesAligned ==
    Running =>
        \A b \in Blocks(Cur) :
            /\ size_of(Cur, b) % ALGN = 0
            /\ is_free(Cur, b) # 0 => size_of(Cur, b) >= ALGN

(* ------------------------------------------------------------------ *)
(* C23                                                                  *)
(* ------------------------------------------------------------------ *)

\* block c of s is free and holds the header b of a released block: it
\* is that block, or one the block was merged into
HoldsReleased(s, c, b) ==
    /\ c \in Blocks(s)
    /\ is_free(s, c) # 0
    /\ c = b \/ (c < b /\ b < c + PADDED_HEADER_SIZE + size_of(s, c))

C23_Step ==
    FreedLive =>
        /\ \E c \in Blocks(Cur') : HoldsReleased(Cur', c, HeaderOf(call'.ptr))
        /\ \A c \in Blocks(Cur') :
              HoldsReleased(Cur', c, HeaderOf(call'.ptr)) =>
                  /\ InUseOrAbsent(Cur', PredOf(Cur', c))
                  /\ InUseOrAbsent(Cur', SuccOf(Cur', c))

\* C23: coalescing is complete within one call: after free(p) on an
\* in-use block returns, the free block that contains p's former payload
\* has neither a free immediate predecessor nor a free immediate
\* successor.
C23_CoalescingTotal == [][C23_Step]_vars

(* ------------------------------------------------------------------ *)
(* C24                                                                  *)
(* ------------------------------------------------------------------ *)

C24_Step ==
    (ReallocReturned /\ GrowsInPlace(Cur, HeaderOf(call'.ptr), AlignUp(call'.n))) =>
        LET b == HeaderOf(call'.ptr)
            a == AlignUp(call'.n)
            N == next_of(Cur, b)
            M == size_of(Cur, b) + PADDED_HEADER_SIZE + size_of(Cur, N)
            nb == b + PADDED_HEADER_SIZE + a
        IN  IF M >= a + PADDED_HEADER_SIZE + ALGN
            THEN /\ size_of(Cur', b) = a
                 /\ next_of(Cur', b) = nb
                 /\ is_free(Cur', nb) # 0
                 /\ size_of(Cur', nb) = M - a - PADDED_HEADER_SIZE
            ELSE /\ size_of(Cur', b) = M
                 /\ next_of(Cur', b) = next_of(Cur, N)

\* C24: realloc's grow in place treats the excess as malloc does: with
\* M = current size + padded header size + successor size and a the
\* aligned new size, if M >= a + padded header size + 16 a free block of
\* size M - a - padded header size is linked right after p's block, which
\* gets size a; otherwise there is no split and p's block keeps the
\* whole merged size M.
C24_GrowKeepsExcess == [][C24_Step]_vars

(* ------------------------------------------------------------------ *)
(* C25                                                                  *)
(* ------------------------------------------------------------------ *)

C25_Step ==
    /\ \* the environment is read at most once: debug_mode is set only
       \* while it is unread, to what the environment says
       debug_mode' # debug_mode =>
          debug_mode = DEBUG_UNREAD /\ debug_mode' = check_debug_mode(debug_mode, debug_env)
    /\ \* a call prints a trace line only if the cached flag is set
       trace' > 0 => debug_mode' = 1
    /\ \* and none without DEBUG_MALLOC
       ~debug_env => trace' = 0

\* C25: trace output is gated by the process-wide debug flag: the
\* environment is read at most once, on the first check, and cached; a
\* call prints a trace line only if the cached flag is set; without
\* DEBUG_MALLOC in the environment no sequence of malloc, free, calloc
\* and realloc calls prints any trace line.
C25_TraceGated == [][C25_Step]_vars

(* ------------------------------------------------------------------ *)
(* C26                                                                  *)
(* ------------------------------------------------------------------ *)

\* q lies in the bytes the client asked for at p, and p's block is an
\* in-use block of the directory
InsideLive(q, p) ==
    /\ p \in DOMAIN live
    /\ p <= q /\ q < p + live[p]
    /\ HeaderOf(p) \in Blocks(Cur)
    /\ is_free(Cur, HeaderOf(p)) = 0

C26_Step ==
    \A p \in DOMAIN live :
        (call'.op = "free" /\ InsideLive(call'.ptr, p)) =>
            /\ status' = "run"
            /\ \E c \in Blocks(Cur') : HoldsReleased(Cur', c, HeaderOf(p))

\* C26: free(q), q any address inside the payload of an in-use block and
\* not necessarily its first byte, frees the block that contains q.
C26_FreeInterior == [][C26_Step]_vars

(* ------------------------------------------------------------------ *)
(* C27                                                                  *)
(* ------------------------------------------------------------------ *)

\* the walk along next links from heap_head ends at NULL: it neither
\* leaves the arena nor comes back to a header it has visited
EndsAtNull(s) ==
    \/ s.heap_head = NULL
    \/ /\ Len(Chain(s)) > 0
       /\ next_of(s, Chain(s)[Len(Chain(s))]) = NULL

\* C27: in every reachable state the links of the directory are well
\* formed: the first block has prev = NULL, the chain from heap_head is
\* finite and acyclic and ends in the one block with next = NULL, and
\* every block b with a successor n has n.prev = b (so that the scans of
\* malloc and the merge loop of free terminate).
C27_LinksWellFormed ==
    /\ status # "hang"
    /\ (Running /\ heap_head # NULL) =>
          /\ prev_of(Cur, heap_head) = NULL
          /\ EndsAtNull(Cur)
          /\ \A i \in 1 .. Len(Chain(Cur)) - 1 :
                prev_of(Cur, Chain(Cur)[i + 1]) = Chain(Cur)[i]

(* ------------------------------------------------------------------ *)
(* C28                                                                  *)
(* ------------------------------------------------------------------ *)

\* a call of malloc, free, calloc or realloc has returned
CallReturned ==
    call'.op \in {"malloc", "free", "calloc", "realloc"} /\ status' = "run"

\* p is one of the client's pointers, an in-use block of the directory,
\* and neither the call's pointer argument nor its result
Bystander(p) ==
    /\ p \in DOMAIN live
    /\ HeaderOf(p) \in Blocks(Cur)
    /\ is_free(Cur, HeaderOf(p)) = 0
    /\ p # call'.ptr /\ p # call'.ret

C28_Step ==
    CallReturned =>
        \A p \in DOMAIN live :
            Bystander(p) =>
                /\ HeaderOf(p) \in Blocks(Cur')
                /\ is_free(Cur', HeaderOf(p)) = 0
                /\ size_of(Cur', HeaderOf(p)) = size_of(Cur, HeaderOf(p))
                /\ SameBytes(Cur, p, Cur', p, size_of(Cur, HeaderOf(p)))

\* C28: frame of live allocations: no call of malloc, free, calloc or
\* realloc changes the address, the recorded size, the in-use state or
\* the payload bytes of an in-use block other than the block its pointer
\* argument names and the block it returns.
C28_LiveFrame == [][C28_Step]_vars

====
